---- MODULE Spec2Model ----
(***************************************************************************)
(* Model of guides/keras_cv/classification_with_keras_cv.py: the top-level *)
(* script (one action per statement group, in source order), the tf.data   *)
(* pipeline it builds (a lazy description that is evaluated each time it   *)
(* is iterated), and the tf.data runtime executing one parallel map of the *)
(* script's own functions (MapSpec).                                       *)
(***************************************************************************)
EXTENDS Integers, Sequences, FiniteSets, TLC

\* ---------------------------------------------------------------- bounds
\* Scores of a prediction vector are drawn from 0..MaxScore.
MaxScore == 1
\* The train split holds 0..MaxExamples examples.
MaxExamples == 33
\* The parallel map of MapSpec runs over 1..MaxMapElems input elements.
MaxMapElems == 3
\* Worker threads of the parallel map (AUTOTUNE picks the number at run time).
NumWorkers == 2

\* ------------------------------------------------------ program constants
BATCH_SIZE == 32
TabbyCat == 281
Velvet == 885
CatsVsDogsClasses == 2
DenseUnits == 2
ResizeSide == 224
ShuffleFactor == 10
ImagenetClasses == 1000

VARIABLES
    pc,          \* the statement group about to run, "done" or "failed"
    error,       \* the uncaught exception; NoError while the script runs
    trace,       \* history: the statement groups started so far, in order
    output,      \* what print has written
    env,         \* the module's global names (unset names hold typed placeholders)
    hist,        \* history: the model.fit / model.predict calls made and what fit iterated
    map_fn, map_in, map_next, map_worker, map_out   \* the parallel map of MapSpec

scriptVars == <<pc, error, trace, output, env, hist>>
mapVars == <<map_fn, map_in, map_next, map_worker, map_out>>
vars == <<scriptVars, mapVars>>

\* ------------------------------------------------------------- values
Scores == 0..MaxScore
\* The class indexes of a prediction row: the two the script names, and index 0 for
\* the classes it does not name.
ImagenetIds == {0, TabbyCat, Velvet}
NoError == [exc |-> "none", library |-> FALSE, at |-> "none"]
NoImage == [rank |-> 0, size |-> <<0, 0>>, dtype |-> "none", id |-> 0, ops |-> <<>>]
NoBatch == [rank |-> 0, size |-> <<0, 0>>, dtype |-> "none", ids |-> <<>>, ops |-> <<>>]
NoDataset == [src |-> <<>>, ops |-> <<>>]
NoNet == [weights |-> "none", include_top |-> FALSE, num_classes |-> 0]
NoModel == [layers |-> <<>>, units |-> 0, compiled |-> FALSE, trained |-> FALSE]
NoLayer == [height |-> 0, width |-> 0]

Tuple2(a, b) == [type |-> "tuple", items |-> <<a, b>>]
Dict(i, l) == [type |-> "dict", images |-> i, labels |-> l]
Err(e) == [type |-> "error", exc |-> e]
Keys(d) == DOMAIN d \ {"type"}

Min(a, b) == IF a <= b THEN a ELSE b
Reverse(s) == [i \in 1..Len(s) |-> s[Len(s) + 1 - i]]

\* ------------------------------------------------- the script's functions
\* Mutant of one_hot: the index is taken as 1-based.
one_hot_one_based(label, depth) == [i \in 0..(depth - 1) |-> IF i + 1 = label THEN 1 ELSE 0]

\* tf.one_hot(label, depth): 1 at index label, 0 elsewhere; all 0 when label is out of range.
one_hot(label, depth) == [i \in 0..(depth - 1) |-> IF i = label THEN 1 ELSE 0]

\* keras_cv.layers.Resizing(h, w, crop_to_aspect_ratio=True) on one image.
Resizing(layer, img) == [img EXCEPT !.size = <<layer.height, layer.width>>]

\* def package_dict(image, label)
package_dict(image, label) ==
    LET image1 == [image EXCEPT !.dtype = "float32"]
        image2 == Resizing(env.random_crop, image1)
        label1 == [rank |-> 1, vecs |-> one_hot(label, env.num_classes), ops |-> <<>>]
    IN  Dict(image2, label1)

\* def unpackage_data(inputs): inputs['images'], inputs['labels']
unpackage_data(inputs) ==
    IF inputs.type = "dict" /\ {"images", "labels"} \subseteq Keys(inputs)
    THEN Tuple2(inputs.images, inputs.labels)
    ELSE Err("TypeError")

\* One keras_cv augmentation layer on a dict: the layer is recorded on the tensors
\* it rewrites (CutMix and MixUp also mix the labels, and need a batch dimension).
MixingLayers == {"CutMix", "MixUp"}
ApplyLayer(name, x) ==
    IF x.type # "dict" THEN x
    ELSE IF name \in MixingLayers /\ x.images.rank # 4 THEN Err("ValueError")
    ELSE LET rec == [layer |-> name, rank |-> x.images.rank]
         IN  Dict([x.images EXCEPT !.ops = Append(@, rec)],
                  IF name \in MixingLayers
                  THEN [x.labels EXCEPT !.ops = Append(@, rec)]
                  ELSE x.labels)

\* keras.Sequential(layers)(x): the layers in list order.
RECURSIVE Sequential(_, _)
Sequential(layers, x) ==
    IF Len(layers) = 0 THEN x
    ELSE Sequential(Tail(layers), ApplyLayer(Head(layers), x))

\* ------------------------------------------------------ tf.data pipeline
\* A dataset is its source elements and the transformations stacked on it; every
\* method returns a new dataset and leaves the receiver as it was.
Op(name, fn, n) == [op |-> name, fn |-> fn, n |-> n]
With(ds, o) == [ds EXCEPT !.ops = Append(@, o)]
shuffle(ds, buffer_size) == With(ds, Op("shuffle", "", buffer_size))
map(ds, fn) == With(ds, Op("map", fn, 0))
batch(ds, batch_size) == With(ds, Op("batch", "", batch_size))
prefetch(ds) == With(ds, Op("prefetch", "", 0))
take(ds, count) == With(ds, Op("take", "", count))

\* The orders a shuffle may produce that the model explores.
ShuffleOrders == {"keep", "reverse"}
Shuffled(elems, buffer_size, order) ==
    IF order = "reverse" /\ Len(elems) <= buffer_size THEN Reverse(elems) ELSE elems

\* Mutant of NumBatches: batch(..., drop_remainder=True).
NumBatchesDropRemainder(n, batch_size) == n \div batch_size

\* Dataset.batch(batch_size) with the default drop_remainder=False.
NumBatches(n, batch_size) == (n + batch_size - 1) \div batch_size
Stack(elems) ==
    IF \E i \in 1..Len(elems) : elems[i].type # "dict" THEN Err("TypeError")
    ELSE IF \E i \in 1..Len(elems) : elems[i].images.size # elems[1].images.size
    THEN Err("InvalidArgumentError")
    ELSE Dict([rank |-> elems[1].images.rank + 1, size |-> elems[1].images.size,
               dtype |-> elems[1].images.dtype,
               ids |-> [i \in 1..Len(elems) |-> elems[i].images.id], ops |-> <<>>],
              [rank |-> elems[1].labels.rank + 1,
               vecs |-> [i \in 1..Len(elems) |-> elems[i].labels.vecs], ops |-> <<>>])
Batched(elems, batch_size) ==
    [k \in 1..NumBatches(Len(elems), batch_size) |->
        Stack(SubSeq(elems, (k - 1) * batch_size + 1, Min(k * batch_size, Len(elems))))]

\* Mutant of ApplyFn: the mapped function reads its argument from a global that the
\* most recently dispatched call has overwritten.
ApplyFnSharedInput(fn, e) ==
    LET shared == IF map_next > 1 /\ map_next - 1 <= Len(map_in)
                  THEN map_in[map_next - 1] ELSE e
    IN  CASE fn = "package_dict" ->
                IF shared.type = "tuple" THEN package_dict(shared.items[1], shared.items[2])
                ELSE Err("TypeError")
          [] fn = "unpackage_data" -> unpackage_data(shared)
          [] fn = "augmenter" -> Sequential(env.augmenter, shared)

ApplyFn(fn, e) ==
    CASE fn = "package_dict" ->
            IF e.type = "tuple" THEN package_dict(e.items[1], e.items[2]) ELSE Err("TypeError")
      [] fn = "unpackage_data" -> unpackage_data(e)
      [] fn = "augmenter" -> Sequential(env.augmenter, e)

ApplyOp(elems, o, order) ==
    CASE o.op = "shuffle" -> Shuffled(elems, o.n, order)
      [] o.op = "map" -> [i \in 1..Len(elems) |-> ApplyFn(o.fn, elems[i])]
      [] o.op = "batch" -> Batched(elems, o.n)
      [] o.op = "prefetch" -> elems
      [] o.op = "take" -> SubSeq(elems, 1, Min(o.n, Len(elems)))

RECURSIVE RunOps(_, _, _)
RunOps(elems, ops, order) ==
    IF Len(ops) = 0 THEN elems
    ELSE RunOps(ApplyOp(elems, Head(ops), order), Tail(ops), order)

\* list(iter(ds)): one pass over the dataset.
Iterate(ds, order) == RunOps(ds.src, ds.ops, order)

\* ------------------------------------------------------------- numpy
\* row.argsort(): the indexes in ascending score order; ties in any order.
argsort(row) ==
    LET ids == DOMAIN row
        n == Cardinality(ids)
    IN  {p \in [1..n -> ids] :
            /\ \A i, j \in 1..n : i # j => p[i] # p[j]
            /\ \A i, j \in 1..n : i < j => row[p[i]] <= row[p[j]]}

\* row.argmax(): the first index holding the maximum.
argmax(row) ==
    CHOOSE i \in DOMAIN row :
        /\ \A j \in DOMAIN row : row[j] <= row[i]
        /\ \A j \in DOMAIN row : j < i => row[j] < row[i]

\* ------------------------------------------------------------ the script
InitEnv ==
    [classifier |-> NoNet, filepath |-> "", image |-> NoImage, predictions |-> <<>>,
     top_classes |-> <<>>, classes |-> <<>>, top_two |-> <<>>,
     data |-> [train |-> NoDataset], dataset_info |-> [num_examples |-> 0, num_classes |-> 0],
     train_steps_per_epoch |-> 0, train_dataset |-> NoDataset, num_classes |-> 0,
     random_crop |-> NoLayer, images |-> NoBatch, augmenter |-> <<>>,
     backbone |-> NoNet, model |-> NoModel]
InitHist == [fit_calls |-> <<>>, fit_received |-> <<>>, predict_calls |-> 0]

Init ==
    /\ pc = "classifier" /\ error = NoError /\ trace = <<>> /\ output = <<>>
    /\ env = InitEnv /\ hist = InitHist
    /\ map_fn = "" /\ map_in = <<>> /\ map_next = 1
    /\ map_worker = [w \in 1..NumWorkers |-> 0] /\ map_out = <<>>

\* A statement group starts: it is the one pc names, and it is logged.
Begin(step) == pc = step /\ trace' = Append(trace, step) /\ UNCHANGED mapVars
\* It completes and control falls through to the next statement group.
Goto(next) == pc' = next /\ error' = error
\* Mutant of Raise: the exception is caught and the statement is tried again.
RaiseAndRetry(exc, lib) ==
    /\ pc' = pc
    /\ error' = [exc |-> exc, library |-> lib, at |-> pc]
    /\ UNCHANGED <<output, env, hist>>

\* It raises: nothing catches, the interpreter exits.
Raise(exc, lib) ==
    /\ pc' = "failed"
    /\ error' = [exc |-> exc, library |-> lib, at |-> pc]
    /\ UNCHANGED <<output, env, hist>>
\* The first element of a pass that is an exception raised inside the pipeline.
HasError(elems) == \E i \in 1..Len(elems) : elems[i].type = "error"
FirstError(elems) ==
    elems[CHOOSE i \in 1..Len(elems) :
            elems[i].type = "error" /\ \A j \in 1..(i - 1) : elems[j].type # "error"]

\* classifier = keras_cv.models.DenseNet121(weights='imagenet', ...)
LoadClassifier ==
    /\ Begin("classifier")
    /\ \/ /\ env' = [env EXCEPT !.classifier = [weights |-> "imagenet", include_top |-> TRUE,
                                                num_classes |-> ImagenetClasses]]
          /\ Goto("get_file") /\ UNCHANGED <<output, hist>>
       \/ Raise("OSError", TRUE)

\* filepath = tf.keras.utils.get_file(origin=...)
GetFile ==
    /\ Begin("get_file")
    /\ \/ /\ env' = [env EXCEPT !.filepath = "9i63gLN.jpg"]
          /\ Goto("load_img") /\ UNCHANGED <<output, hist>>
       \/ Raise("URLError", TRUE)

\* image = keras.utils.load_img(filepath); image = np.array(image)
SampleImage ==
    [rank |-> 3, size |-> <<ResizeSide + 1, ResizeSide * 2>>, dtype |-> "uint8",
     id |-> 0, ops |-> <<>>]
LoadImg ==
    /\ Begin("load_img")
    /\ env' = [env EXCEPT !.image = SampleImage]
    /\ Goto("predict") /\ UNCHANGED <<output, hist>>

\* predictions = classifier.predict(image[None, ...]): one row of class scores.
Predict ==
    /\ Begin("predict")
    /\ \E row \in [ImagenetIds -> Scores] : env' = [env EXCEPT !.predictions = <<row>>]
    /\ Goto("argsort") /\ UNCHANGED <<output, hist>>

\* top_classes = predictions[0].argsort(axis=-1)
Argsort ==
    /\ Begin("argsort")
    /\ \E p \in argsort(env.predictions[1]) : env' = [env EXCEPT !.top_classes = p]
    /\ Goto("classes") /\ UNCHANGED <<output, hist>>

\* classes = {281: 'tabby, tabby cat', 885: 'velvet'}
ImagenetSubset == (TabbyCat :> "tabby, tabby cat") @@ (Velvet :> "velvet")
BindClasses ==
    /\ Begin("classes")
    /\ env' = [env EXCEPT !.classes = ImagenetSubset]
    /\ Goto("top_two") /\ UNCHANGED <<output, hist>>

\* top_two = [classes[i] for i in top_classes[-2:]]
LastTwo(s) == SubSeq(s, Len(s) - 1, Len(s))
TopTwo ==
    /\ Begin("top_two")
    /\ LET idx == LastTwo(env.top_classes)
       IN  IF \A k \in 1..Len(idx) : idx[k] \in DOMAIN env.classes
           THEN /\ env' = [env EXCEPT !.top_two = [k \in 1..Len(idx) |-> env.classes[idx[k]]]]
                /\ Goto("print_top_two") /\ UNCHANGED <<output, hist>>
           ELSE Raise("KeyError", FALSE)

\* print("Top two classes are:", top_two)
PrintTopTwo ==
    /\ Begin("print_top_two")
    /\ output' = Append(output, <<"Top two classes are:">> \o env.top_two)
    /\ Goto("tfds_load") /\ UNCHANGED <<env, hist>>

\* data, dataset_info = tfds.load("cats_vs_dogs", with_info=True, as_supervised=True)
RawImage(i, off) ==
    [rank |-> 3,
     size |-> IF (i + off) % 2 = 0 THEN <<ResizeSide, ResizeSide>>
                                   ELSE <<ResizeSide + 1, ResizeSide * 2>>,
     dtype |-> "uint8", id |-> i, ops |-> <<>>]
TrainSplit(n, off) ==
    [src |-> [i \in 1..n |-> Tuple2(RawImage(i, off), (i + off) % CatsVsDogsClasses)],
     ops |-> <<>>]
TfdsLoad ==
    /\ Begin("tfds_load")
    /\ \/ /\ \E n \in 0..MaxExamples, off \in 0..(CatsVsDogsClasses - 1) :
                env' = [env EXCEPT !.data = [train |-> TrainSplit(n, off)],
                                   !.dataset_info = [num_examples |-> n,
                                                     num_classes |-> CatsVsDogsClasses]]
          /\ Goto("setup") /\ UNCHANGED <<output, hist>>
       \/ Raise("ConnectionError", TRUE)

\* train_steps_per_epoch = ... // BATCH_SIZE; train_dataset = data['train'];
\* num_classes = ...; random_crop = keras_cv.layers.Resizing(224, 224, ...)
Setup ==
    /\ Begin("setup")
    /\ env' = [env EXCEPT
                !.train_steps_per_epoch = env.dataset_info.num_examples \div BATCH_SIZE,
                !.train_dataset = env.data.train,
                !.num_classes = env.dataset_info.num_classes,
                !.random_crop = [height |-> ResizeSide, width |-> ResizeSide]]
    /\ Goto("map_package") /\ UNCHANGED <<output, hist>>

\* train_dataset = train_dataset.shuffle(10 * BATCH_SIZE).map(package_dict, ...)
MapPackage ==
    /\ Begin("map_package")
    /\ env' = [env EXCEPT !.train_dataset =
                 map(shuffle(env.train_dataset, ShuffleFactor * BATCH_SIZE), "package_dict")]
    /\ Goto("batch") /\ UNCHANGED <<output, hist>>

\* train_dataset = train_dataset.batch(BATCH_SIZE)
Batch ==
    /\ Begin("batch")
    /\ env' = [env EXCEPT !.train_dataset = batch(env.train_dataset, BATCH_SIZE)]
    /\ Goto("gallery1") /\ UNCHANGED <<output, hist>>

\* images = next(iter(train_dataset.take(1)))['images']; plot_image_gallery(images, ...)
Gallery(next) ==
    \E order \in ShuffleOrders :
        LET got == Iterate(take(env.train_dataset, 1), order)
        IN  IF Len(got) = 0 THEN Raise("StopIteration", TRUE)
            ELSE IF got[1].type = "error" THEN Raise(got[1].exc, TRUE)
            ELSE IF got[1].type # "dict" THEN Raise("TypeError", FALSE)
            ELSE /\ env' = [env EXCEPT !.images = got[1].images]
                 /\ Goto(next) /\ UNCHANGED <<output, hist>>
Gallery1 == Begin("gallery1") /\ Gallery("augmenter")

\* Mutant of AugmenterLayers: CutMix listed before RandAugment.
AugmenterLayersReordered == <<"RandomFlip", "CutMix", "RandAugment", "MixUp">>

\* augmenter = keras.Sequential(layers=[RandomFlip(), RandAugment(...), CutMix(), MixUp()])
AugmenterLayers == <<"RandomFlip", "RandAugment", "CutMix", "MixUp">>
BuildAugmenter ==
    /\ Begin("augmenter")
    /\ env' = [env EXCEPT !.augmenter = AugmenterLayers]
    /\ Goto("map_augmenter") /\ UNCHANGED <<output, hist>>

\* train_dataset = train_dataset.map(augmenter, ...)
MapAugmenter ==
    /\ Begin("map_augmenter")
    /\ env' = [env EXCEPT !.train_dataset = map(env.train_dataset, "augmenter")]
    /\ Goto("gallery2") /\ UNCHANGED <<output, hist>>

Gallery2 == Begin("gallery2") /\ Gallery("backbone")

\* backbone = keras_cv.models.DenseNet121(include_top=False, ..., weights=...)
Backbone ==
    /\ Begin("backbone")
    /\ \/ /\ env' = [env EXCEPT !.backbone = [weights |-> "imagenet/classification",
                                              include_top |-> FALSE,
                                              num_classes |-> DenseUnits]]
          /\ Goto("model") /\ UNCHANGED <<output, hist>>
       \/ Raise("OSError", TRUE)

\* Mutant of BuildModel: control passes over model.compile.
BuildModelSkipsCompile ==
    /\ Begin("model")
    /\ env' = [env EXCEPT !.model = [layers |-> <<"backbone", "dense">>, units |-> DenseUnits,
                                     compiled |-> FALSE, trained |-> FALSE]]
    /\ Goto("bare_map") /\ UNCHANGED <<output, hist>>

\* model = keras.Sequential([backbone, keras.layers.Dense(2, activation='softmax')])
BuildModel ==
    /\ Begin("model")
    /\ env' = [env EXCEPT !.model = [layers |-> <<"backbone", "dense">>, units |-> DenseUnits,
                                     compiled |-> FALSE, trained |-> FALSE]]
    /\ Goto("compile") /\ UNCHANGED <<output, hist>>

\* model.compile(loss=..., optimizer=..., metrics=[...])
Compile ==
    /\ Begin("compile")
    /\ env' = [env EXCEPT !.model.compiled = TRUE]
    /\ Goto("bare_map") /\ UNCHANGED <<output, hist>>

\* Mutant of BareMap: the result of the map is bound to train_dataset.
BareMapRebinds ==
    /\ Begin("bare_map")
    /\ env' = [env EXCEPT !.train_dataset = map(env.train_dataset, "unpackage_data")]
    /\ Goto("prefetch") /\ UNCHANGED <<output, hist>>

\* train_dataset.map(unpackage_data, ...): the new dataset is dropped.
BareMap ==
    /\ Begin("bare_map")
    /\ LET dropped == map(env.train_dataset, "unpackage_data")
       IN  env' = env
    /\ Goto("prefetch") /\ UNCHANGED <<output, hist>>

\* train_dataset = train_dataset.prefetch(tf.data.AUTOTUNE)
Prefetch ==
    /\ Begin("prefetch")
    /\ env' = [env EXCEPT !.train_dataset = prefetch(env.train_dataset)]
    /\ Goto("fit") /\ UNCHANGED <<output, hist>>

\* model.fit(train_dataset.map(unpackage_data, ...)): one epoch, one pass.
LabelWidth(e) == Cardinality(DOMAIN e.items[2].vecs[1])
Fit ==
    /\ Begin("fit")
    /\ \E order \in ShuffleOrders :
        LET ds == map(env.train_dataset, "unpackage_data")
            got == Iterate(ds, order)
        IN  IF ~env.model.compiled THEN Raise("RuntimeError", TRUE)
            ELSE IF HasError(got) THEN Raise(FirstError(got).exc, TRUE)
            ELSE IF \E i \in 1..Len(got) : got[i].type # "tuple" THEN Raise("TypeError", TRUE)
            ELSE IF Len(got) = 0 \/ LabelWidth(got[1]) # env.model.units
            THEN Raise("ValueError", TRUE)
            ELSE /\ env' = [env EXCEPT !.model.trained = TRUE]
                 /\ hist' = [hist EXCEPT !.fit_calls = Append(@, ds), !.fit_received = got]
                 /\ Goto("predict2") /\ UNCHANGED output

\* predictions = model.predict(image[None, ...]): one row, one score per output unit.
Predict2 ==
    /\ Begin("predict2")
    /\ \E row \in [0..(env.model.units - 1) -> Scores] :
            env' = [env EXCEPT !.predictions = <<row>>]
    /\ hist' = [hist EXCEPT !.predict_calls = @ + 1]
    /\ Goto("classes2") /\ UNCHANGED output

\* Mutant of CatDog: the entry for class 1 is missing.
CatDogMissingDog == (0 :> "cat")

\* classes = {0: 'cat', 1: 'dog'}
CatDog == (0 :> "cat") @@ (1 :> "dog")
BindClasses2 ==
    /\ Begin("classes2")
    /\ env' = [env EXCEPT !.classes = CatDog]
    /\ Goto("print_top") /\ UNCHANGED <<output, hist>>

\* print("Top class is:", classes[predictions[0].argmax()])
PrintTop ==
    /\ Begin("print_top")
    /\ LET k == argmax(env.predictions[1])
       IN  IF k \in DOMAIN env.classes
           THEN /\ output' = Append(output, <<"Top class is:", env.classes[k]>>)
                /\ Goto("done") /\ UNCHANGED <<env, hist>>
           ELSE Raise("KeyError", FALSE)

Next ==
    \/ LoadClassifier \/ GetFile \/ LoadImg \/ Predict \/ Argsort \/ BindClasses
    \/ TopTwo \/ PrintTopTwo \/ TfdsLoad \/ Setup \/ MapPackage \/ Batch \/ Gallery1
    \/ BuildAugmenter \/ MapAugmenter \/ Gallery2 \/ Backbone \/ BuildModel \/ Compile
    \/ BareMap \/ Prefetch \/ Fit \/ Predict2 \/ BindClasses2 \/ PrintTop

Spec == Init /\ [][Next]_vars

\* ------------------------------------------- one parallel Dataset.map call
\* The tf.data runtime running train_dataset.map(f, num_parallel_calls=AUTOTUNE) for
\* one of the script's own functions, in the script state after num_classes and
\* random_crop are bound: a dispatcher hands the next input element to an idle
\* worker, the worker calls f on it and stores the result in the element's slot.
Pending == [type |-> "pending"]
ScriptFns == {"package_dict", "unpackage_data"}
MapInput(fn, i, label) ==
    IF fn = "package_dict" THEN Tuple2(RawImage(i, 0), label)
    ELSE Stack(<<package_dict(RawImage(i, 0), label)>>)

MapInit ==
    /\ pc = "parallel_map" /\ error = NoError /\ trace = <<>> /\ output = <<>>
    /\ hist = InitHist
    /\ env = [InitEnv EXCEPT !.num_classes = CatsVsDogsClasses,
                             !.random_crop = [height |-> ResizeSide, width |-> ResizeSide]]
    /\ map_fn \in ScriptFns
    /\ \E n \in 1..MaxMapElems :
         \E labels \in [1..n -> 0..(CatsVsDogsClasses - 1)] :
            /\ map_in = [i \in 1..n |-> MapInput(map_fn, i, labels[i])]
            /\ map_out = [i \in 1..n |-> Pending]
    /\ map_next = 1
    /\ map_worker = [w \in 1..NumWorkers |-> 0]

MapStart(w) ==
    /\ map_worker[w] = 0
    /\ map_next <= Len(map_in)
    /\ map_worker' = [map_worker EXCEPT ![w] = map_next]
    /\ map_next' = map_next + 1
    /\ UNCHANGED <<map_fn, map_in, map_out, scriptVars>>

MapFinish(w) ==
    /\ map_worker[w] # 0
    /\ map_out' = [map_out EXCEPT ![map_worker[w]] = ApplyFn(map_fn, map_in[map_worker[w]])]
    /\ map_worker' = [map_worker EXCEPT ![w] = 0]
    /\ UNCHANGED <<map_fn, map_in, map_next, scriptVars>>

MapNext == \E w \in 1..NumWorkers : MapStart(w) \/ MapFinish(w)
MapSpec == MapInit /\ [][MapNext]_vars

\* ================================================================ claims
Range(f) == {f[i] : i \in DOMAIN f}
Last(q) == q[Len(q)]
Started(step) == step \in Range(trace)
\* The statement groups of the script in source order, and the section each is in.
ScriptOrder ==
    <<"classifier", "get_file", "load_img", "predict", "argsort", "classes", "top_two",
      "print_top_two", "tfds_load", "setup", "map_package", "batch", "gallery1",
      "augmenter", "map_augmenter", "gallery2", "backbone", "model", "compile",
      "bare_map", "prefetch", "fit", "predict2", "classes2", "print_top">>
PhaseOf(step) ==
    CASE step \in {"classifier"} -> 1
      [] step \in {"get_file", "load_img", "predict", "argsort", "classes", "top_two",
                   "print_top_two"} -> 2
      [] step \in {"tfds_load", "setup", "map_package", "batch", "gallery1"} -> 3
      [] step \in {"augmenter", "map_augmenter", "gallery2"} -> 4
      [] step \in {"backbone", "model", "compile"} -> 5
      [] step \in {"bare_map", "prefetch", "fit"} -> 6
      [] step \in {"predict2", "classes2", "print_top"} -> 7

\* C1: the statement groups run in the one source order (load classifier, inference,
\* load dataset, augmentation pipeline, build and compile, fit, predict): what has
\* started is always a prefix of that order, so nothing is skipped, repeated or
\* revisited; the section number never decreases and grows by at most one; the
\* group about to run is the successor of the last one started; a run that ends
\* normally has run every group.
C1_LinearOrder ==
    /\ Len(trace) <= Len(ScriptOrder)
    /\ trace = SubSeq(ScriptOrder, 1, Len(trace))
    /\ \A i, j \in 1..Len(trace) : i # j => trace[i] # trace[j]
    /\ \A i \in 1..(Len(trace) - 1) :
          PhaseOf(trace[i + 1]) \in {PhaseOf(trace[i]), PhaseOf(trace[i]) + 1}
    /\ Len(trace) > 0 => PhaseOf(trace[1]) = 1
    /\ pc \notin {"done", "failed"} => pc = ScriptOrder[Len(trace) + 1]
    /\ pc = "done" => trace = ScriptOrder
C1_Witness == pc = "done" /\ Len(trace) = Len(ScriptOrder) /\ PhaseOf(Last(trace)) = 7

FinalLines == {<<"Top class is:", "cat">>, <<"Top class is:", "dog">>}
\* C2: once a statement group has raised, the script has stopped there: the failing
\* group is the last one started and was started once, no action is enabled any
\* more (no retry, no later group), fit and the final predict have run only if they
\* came before the failure, and the final line is not printed.
C2_FailureStops ==
    error.exc # "none" =>
        /\ pc = "failed"
        /\ Len(trace) > 0 /\ Last(trace) = error.at
        /\ \A i \in 1..Len(trace) : trace[i] = error.at => i = Len(trace)
        /\ ~ENABLED Next
        /\ (~Started("fit") => hist.fit_calls = <<>> /\ ~env.model.trained)
        /\ (~Started("predict2") => hist.predict_calls = 0)
        /\ \A i \in 1..Len(output) : output[i] \notin FinalLines
C2_Witness ==
    pc = "failed" /\ error.exc = "ConnectionError" /\ error.at = "tfds_load"
    /\ Len(output) = 1

C4_PackageDict ==
    pc = "batch" =>
        LET src == env.data.train.src
            out == Iterate(env.train_dataset, "keep")
        IN  /\ Len(out) = Len(src)
            /\ \A i \in 1..Len(src) :
                  /\ src[i].items[2] \in 0..(env.num_classes - 1)
                  /\ out[i].type = "dict"
                  /\ Keys(out[i]) = {"images", "labels"}
                  /\ DOMAIN out[i].labels.vecs = 0..(env.num_classes - 1)
                  /\ \A k \in 0..(env.num_classes - 1) :
                        out[i].labels.vecs[k] = (IF k = src[i].items[2] THEN 1 ELSE 0)
                  /\ out[i].images.id = src[i].items[1].id
                  /\ out[i].images.size = <<224, 224>>
            /\ \A i, j \in 1..Len(src) :
                  src[i].items[2] # src[j].items[2] =>
                      out[i].labels.vecs # out[j].labels.vecs
C4_Witness ==
    /\ pc = "batch"
    /\ \E i, j \in 1..Len(env.data.train.src) :
          env.data.train.src[i].items[2] # env.data.train.src[j].items[2]
    /\ \E i \in 1..Len(env.data.train.src) :
          env.data.train.src[i].items[1].size # <<224, 224>>

IsAugment(o) == o.op = "map" /\ o.fn = "augmenter"
AugmentTrace ==
    <<[layer |-> "RandomFlip", rank |-> 4], [layer |-> "RandAugment", rank |-> 4],
      [layer |-> "CutMix", rank |-> 4], [layer |-> "MixUp", rank |-> 4]>>
\* C5: the augmenter is RandomFlip, RandAugment, CutMix, MixUp in that order; it is
\* mapped onto train_dataset once, after batch(BATCH_SIZE); every batch fit receives
\* went through the four layers in that order, once each, with a batch dimension;
\* and the augmented dataset yields dicts with the keys "images" and "labels".
C5_AugmentationPipeline ==
    LET ops == env.train_dataset.ops
    IN  /\ Started("map_augmenter") /\ pc # "failed" =>
              env.augmenter = <<"RandomFlip", "RandAugment", "CutMix", "MixUp">>
        /\ \A i, j \in 1..Len(ops) : IsAugment(ops[i]) /\ IsAugment(ops[j]) => i = j
        /\ \A i \in 1..Len(ops) :
              IsAugment(ops[i]) => \E j \in 1..(i - 1) : ops[j].op = "batch" /\ ops[j].n = 32
        /\ pc = "gallery2" =>
              \A order \in ShuffleOrders :
                  LET out == Iterate(env.train_dataset, order)
                  IN  \A i \in 1..Len(out) :
                          /\ out[i].type = "dict"
                          /\ Keys(out[i]) = {"images", "labels"}
                          /\ out[i].images.ops = AugmentTrace
        /\ pc = "predict2" =>
              \A i \in 1..Len(hist.fit_received) :
                  hist.fit_received[i].items[1].ops = AugmentTrace
C5_Witness ==
    /\ pc = "predict2"
    /\ Len(hist.fit_received) >= 2
    /\ hist.fit_received[1].items[1].ops = AugmentTrace

SequentialCall(fn, e) ==
    IF fn = "package_dict" THEN package_dict(e.items[1], e.items[2])
    ELSE unpackage_data(e)
Holders(i) == {w \in 1..NumWorkers : map_worker[w] = i}
MapDone == map_next > Len(map_in) /\ \A w \in 1..NumWorkers : map_worker[w] = 0
IsUnpackage(o) == o.op = "map" /\ o.fn = "unpackage_data"
\* C8: train_dataset never holds the unpackage_data map: after the bare
\* train_dataset.map(unpackage_data) statement it is the four-stage dataset it was
\* and still yields dicts; the dataset given to fit applies unpackage_data once, as
\* its last stage; every element fit receives is the 2-tuple (images, labels) of a
\* dict batch of train_dataset.
C8_UnpackagedOnce ==
    /\ \A i \in 1..Len(env.train_dataset.ops) : ~IsUnpackage(env.train_dataset.ops[i])
    /\ pc = "prefetch" =>
          /\ [i \in 1..Len(env.train_dataset.ops) |-> env.train_dataset.ops[i].op]
                = <<"shuffle", "map", "batch", "map">>
          /\ \A order \in ShuffleOrders :
                LET out == Iterate(env.train_dataset, order)
                IN  \A i \in 1..Len(out) :
                        out[i].type = "dict" /\ Keys(out[i]) = {"images", "labels"}
    /\ \A c \in 1..Len(hist.fit_calls) :
          LET ops == hist.fit_calls[c].ops
          IN  /\ IsUnpackage(Last(ops))
              /\ \A i \in 1..(Len(ops) - 1) : ~IsUnpackage(ops[i])
              /\ SubSeq(ops, 1, Len(ops) - 1) = env.train_dataset.ops
    /\ pc = "predict2" =>
          \E order \in ShuffleOrders :
              LET dicts == Iterate(env.train_dataset, order)
              IN  /\ Len(hist.fit_received) = Len(dicts)
                  /\ \A i \in 1..Len(dicts) :
                        /\ dicts[i].type = "dict"
                        /\ hist.fit_received[i].type = "tuple"
                        /\ hist.fit_received[i].items = <<dicts[i].images, dicts[i].labels>>
C8_Witness ==
    /\ pc = "predict2"
    /\ Len(hist.fit_received) >= 1
    /\ hist.fit_received[1].type = "tuple"

BatchIds(b) == IF b.type = "dict" THEN b.images.ids ELSE b.items[1].ids
Occurrences(bs, id) ==
    Cardinality({<<k, j>> \in (1..Len(bs)) \X (1..BATCH_SIZE) :
                    j <= Len(BatchIds(bs[k])) /\ BatchIds(bs[k])[j] = id})
ExactlyOnce(bs) ==
    \A id \in 1..env.dataset_info.num_examples : Occurrences(bs, id) = 1
\* C9 (as claimed): train_steps_per_epoch is the number of batches of one epoch and
\* of fit's steps, every batch holds exactly BATCH_SIZE examples and every example
\* is in exactly one batch.
C9_StepsEqualBatches ==
    /\ pc = "gallery1" =>
          \A order \in ShuffleOrders :
              LET bs == Iterate(env.train_dataset, order)
              IN  /\ Len(bs) = env.train_steps_per_epoch
                  /\ \A k \in 1..Len(bs) : Len(BatchIds(bs[k])) = BATCH_SIZE
                  /\ ExactlyOnce(bs)
    /\ pc = "predict2" => Len(hist.fit_received) = env.train_steps_per_epoch

CeilBatches ==
    env.train_steps_per_epoch
        + (IF env.dataset_info.num_examples % BATCH_SIZE = 0 THEN 0 ELSE 1)
BatchShape(bs) ==
    /\ Len(bs) = CeilBatches
    /\ \A k \in 1..(Len(bs) - 1) : Len(BatchIds(bs[k])) = BATCH_SIZE
    /\ Len(bs) > 0 =>
          /\ Len(BatchIds(Last(bs))) \in 1..BATCH_SIZE
          /\ Len(BatchIds(Last(bs))) =
                env.dataset_info.num_examples - BATCH_SIZE * (Len(bs) - 1)
    /\ ExactlyOnce(bs)
\* C9 (amended): train_steps_per_epoch is the number of full batches; one epoch
\* yields ceil(num_examples / BATCH_SIZE) batches, one more than
\* train_steps_per_epoch when BATCH_SIZE does not divide num_examples, and that is
\* the number of steps fit runs when it is reached; every batch but the last holds
\* BATCH_SIZE examples, the last holds the 1..BATCH_SIZE that remain; every example
\* is in exactly one batch.
C9_BatchCount ==
    /\ Started("setup") /\ pc # "setup" /\ pc # "failed" =>
          env.train_steps_per_epoch * BATCH_SIZE <= env.dataset_info.num_examples
          /\ env.dataset_info.num_examples < (env.train_steps_per_epoch + 1) * BATCH_SIZE
    /\ pc = "gallery1" =>
          \A order \in ShuffleOrders : BatchShape(Iterate(env.train_dataset, order))
    /\ pc = "predict2" => BatchShape(hist.fit_received)
C9_Witness ==
    /\ pc = "predict2"
    /\ env.dataset_info.num_examples = BATCH_SIZE + 1
    /\ env.train_steps_per_epoch = 1
    /\ Len(hist.fit_received) = 2

\* C10: the final lookup never raises: when the final print is about to run, classes
\* is the two-entry cat/dog dict, the prediction row has two entries so its argmax
\* is 0 or 1, a key of classes; the script then prints exactly one line, 'cat' or
\* 'dog'; and from the first inference on, image is the sample image.
C10_FinalLookup ==
    /\ error.at # "print_top"
    /\ pc = "print_top" =>
          /\ DOMAIN env.classes = {0, 1}
          /\ env.classes[0] = "cat" /\ env.classes[1] = "dog"
          /\ DOMAIN env.predictions[1] = {0, 1}
          /\ argmax(env.predictions[1]) \in DOMAIN env.classes
    /\ pc = "done" =>
          /\ Len(output) = 2
          /\ Last(output) \in FinalLines
          /\ Last(output)[2] = env.classes[argmax(env.predictions[1])]
    /\ Started("predict") => env.image = SampleImage
C10_Witness ==
    /\ pc = "done"
    /\ Last(output) = <<"Top class is:", "dog">>
    /\ env.image = SampleImage
====
